---- MODULE Spec2Model ----
(***************************************************************************)
(* Compliance monitoring engine of the Solana Token Management Suite.      *)
(*                                                                         *)
(*   polling mode : PeriodicChecker        (src/analyse.py)                *)
(*   push mode    : WhitelistMonitorBot    (src/whitelist.py)              *)
(*                                                                         *)
(* The chain (the node behind the RPC client) is the environment: it holds *)
(* the transactions, the token balances and the frozen accounts.  The      *)
(* files of the engine (whitelist.txt, greylist.json, last_signatures.json,*)
(* transactions.jsonl) are state as well.                                  *)
(***************************************************************************)
EXTENDS Integers, Sequences, FiniteSets, Bags, TLC

\* ------------------------------------------------------------------ bounds
MaxTx == 3          \* transactions submitted by users of the chain
MaxFail == 1        \* node calls that fail in one behaviour
MaxPasses == 6      \* cap of the pass counter (never reached, see C3)
PageLimit == 2      \* page size of get_signatures_for_address (1000 in the code, scaled)
MaxNotify == 3      \* log notifications delivered to the bot
DequeMaxLen == 2    \* maxlen of processed_signatures (500 in the code, scaled)
MaxUnreadable == 1  \* runs that find a cursor file they cannot decode
MaxAbort == 1       \* runs ended by an exception
MaxCalls == 3       \* node calls followed one by one

\* --------------------------------------------------------------- constants
Wallets == {"A", "B", "C"}
Payer == "A"                    \* payer-wallet.json: issuer and freeze authority
NoSig == 0                      \* None: no signature known
NoWallet == "-"                 \* None: no sender / recipient
Supply == MaxTx                 \* raw units the issuer holds at the start
WhitelistChoices == {{"A"}}
FlagChoices == {<<FALSE, FALSE>>, <<FALSE, TRUE>>}   \* <<freeze_sender, freeze_recipient>>

\* Signature of the i-th user transaction.  Signatures are opaque strings and
\* run_check sorts them by their text, which is unrelated to chain order.
SigSeq == <<2, 3, 1, 5, 4, 6>>
FreezeSigBase == Len(SigSeq) + 4  \* signatures of the engine's own freeze transactions

VARIABLES
  \* ---- chain (environment)
  chain,          \* sequence of transactions, oldest first
  bal,            \* wallet -> raw token balance
  frozen,         \* wallets whose token account is frozen
  nUserTx,        \* number of user transactions submitted
  \* ---- files
  whitelistFile, greylistFile, stateFile, ledger,
  \* ---- configuration of the PeriodicChecker
  flags,
  \* ---- PeriodicChecker.run_check
  pc, whitelist, greylist, state,
  scanned_wallets_in_run, all_signatures_in_run, processed_signatures_in_run,
  current_monitored_set, analysis_monitored_set,
  wallets_to_scan_this_pass, sorted_signatures, initial_greylist_size, pass_num,
  \* ---- history of the current run (not program state)
  runStart,       \* Len(ledger) when the run began
  scanCount,      \* wallet -> scans in this run
  chainStart,     \* Len(chain) when the run began
  classLog,       \* classifications of this run
  fetchFailed,    \* a signature fetch failed in this run
  lastRun,        \* how the last finished run went, and whether the chain
                  \* has been left alone since
  nFail           \* node calls that have failed so far

VARIABLES
  \* ---- WhitelistMonitorBot
  debug_mode, bot_whitelist,
  processed_signatures,   \* deque(maxlen)
  created,                \* bag of signatures: tasks created, not yet run
  fetching,               \* bag of signatures: tasks awaiting get_transaction
  transaction_log,        \* what transaction_logger has written
  stats,
  freeze_tasks,           \* _freeze_account_on_chain tasks created, not yet run
  nNotified,              \* notifications delivered so far
  fed                     \* number of transactions fed to both analysers

VARIABLE nUnreadable    \* runs so far that could not decode the cursor file
VARIABLE nAbort         \* runs so far that were ended by an exception
VARIABLES
  perform_validation,   \* the --validate option of the engine
  validation            \* what the last _perform_supply_validation found

pushVars == <<debug_mode, bot_whitelist, processed_signatures, created, fetching,
              transaction_log, stats, freeze_tasks, nNotified, fed>>

pollVars == <<pc, whitelist, greylist, state, scanned_wallets_in_run,
              all_signatures_in_run, processed_signatures_in_run,
              current_monitored_set, analysis_monitored_set,
              wallets_to_scan_this_pass, sorted_signatures,
              initial_greylist_size, pass_num,
              runStart, chainStart, scanCount, classLog, fetchFailed, lastRun>>
chainVars == <<chain, bal, frozen, nUserTx>>
fileVars == <<whitelistFile, greylistFile, stateFile, ledger>>
validateVars == <<perform_validation, validation>>

VARIABLE calls          \* the node calls made, with the answers they got; the
                        \* last one may be under way

vars == <<chainVars, fileVars, flags, nFail, pollVars, pushVars, nUnreadable,
          nAbort, validateVars, calls>>

\* ----------------------------------------------------------------- helpers
RECURSIVE Reverse(_)
Reverse(s) == IF s = <<>> THEN <<>> ELSE Reverse(Tail(s)) \o <<Head(s)>>

Range(s) == {s[i] : i \in 1..Len(s)}

Min(S) == CHOOSE x \in S : \A y \in S : x <= y

\* sorted(list(S), key=str): ascending order of the signatures' text
RECURSIVE SortedSigs(_)
SortedSigs(S) == IF S = {} THEN <<>> ELSE <<Min(S)>> \o SortedSigs(S \ {Min(S)})

\* ------------------------------------------------------------------- chain
\* A transaction as get_transaction returns it: the token balances of the
\* monitored mint before and after (one entry per token account, named by its
\* owner), the wallets among its account keys, and its parsed freezeAccount /
\* thawAccount instructions (account = the token account, named by its owner).
Bal(o, a) == [owner |-> o, amount |-> a]
Instr(t, w) == [type |-> t, account |-> w]

Owners(entries) == {entries[i].owner : i \in 1..Len(entries)}

\* the wallet has a token account of the monitored mint
HasAta(w) == w = Payer \/ \E i \in 1..Len(chain) : w \in Owners(chain[i].post)

TxBySig(sig) == CHOOSE t \in Range(chain) : t.sig = sig

\* get_signatures_for_address(wallet): newest first
RECURSIVE HistoryOf(_, _)
HistoryOf(w, c) ==
  IF c = <<>> THEN <<>>
  ELSE LET rest == HistoryOf(w, SubSeq(c, 1, Len(c) - 1))
           last == c[Len(c)]
       IN IF w \in last.mentions THEN <<last.sig>> \o rest ELSE rest

\* A user sends one raw unit to each wallet of rs (one or two recipients) in
\* one transaction, as traffic_generator.send_token_transfer builds it: the
\* sender signs, a missing token account of a recipient is created in the same
\* transaction (which puts the recipient's wallet among the account keys).
\* The issuer may send to two recipients at once, or add a freezeAccount
\* instruction for the recipient.
TransferTx(sig, s, rs, withFreeze) ==
  LET n == Len(rs)
      old == SelectSeq(rs, LAMBDA r : HasAta(r))
  IN [sig |-> sig,
      pre |-> <<Bal(s, bal[s])>> \o [i \in 1..Len(old) |-> Bal(old[i], bal[old[i]])],
      post |-> <<Bal(s, bal[s] - n)>> \o [i \in 1..n |-> Bal(rs[i], bal[rs[i]] + 1)],
      mentions |-> {s} \cup {r \in Range(rs) : ~HasAta(r)},
      instrs |-> IF withFreeze THEN <<Instr("freezeAccount", rs[1])>> ELSE <<>>]

\* Wallets other than the payer are interchangeable: the first of them to take
\* part in a transaction is called B, the second C.
NamedInOrder(r, earlier) ==
  r = "C" => (HasAta("B") \/ "B" \in Range(earlier))

RecipientLists ==
  {<<r>> : r \in Wallets} \cup
  {<<r1, r2>> : r1 \in Wallets, r2 \in Wallets}

SubmitTransfer ==
  /\ UNCHANGED <<pushVars, nUnreadable, nAbort, validateVars, calls>>
  /\ pc = "idle"
  /\ nUserTx < MaxTx
  /\ \E s \in Wallets, rs \in RecipientLists, withFreeze \in BOOLEAN :
       /\ s \notin frozen
       /\ \A i \in 1..Len(rs) : rs[i] # s /\ rs[i] \notin frozen
       /\ Len(rs) = 2 => rs[1] # rs[2]
       /\ bal[s] >= Len(rs)
       /\ (withFreeze \/ Len(rs) = 2) => s = Payer
       /\ withFreeze => Len(rs) = 1
       /\ \A i \in 1..Len(rs) : NamedInOrder(rs[i], SubSeq(rs, 1, i - 1))
       /\ chain' = Append(chain, TransferTx(SigSeq[nUserTx + 1], s, rs, withFreeze))
       /\ bal' = [w \in Wallets |->
                    IF w = s THEN bal[w] - Len(rs)
                    ELSE IF w \in Range(rs) THEN bal[w] + 1 ELSE bal[w]]
       /\ frozen' = IF withFreeze THEN frozen \cup {rs[1]} ELSE frozen
  /\ nUserTx' = nUserTx + 1
  /\ lastRun' = [lastRun EXCEPT !.chainUnchanged = FALSE]
  /\ UNCHANGED <<fileVars, flags, nFail, pc, whitelist, greylist, state,
                 scanned_wallets_in_run, all_signatures_in_run,
                 processed_signatures_in_run, current_monitored_set,
                 analysis_monitored_set, wallets_to_scan_this_pass,
                 sorted_signatures, initial_greylist_size, pass_num,
                 runStart, chainStart, scanCount, classLog, fetchFailed>>

\* the freeze authority thaws a frozen token account (thaw_account_on_chain
\* of the desktop application): a transaction of the payer with one
\* thawAccount instruction
SubmitThaw ==
  /\ UNCHANGED <<pushVars, nUnreadable, nAbort, validateVars, calls>>
  /\ pc = "idle"
  /\ nUserTx < MaxTx
  /\ \E w \in frozen :
       /\ chain' = Append(chain,
                     [sig |-> SigSeq[nUserTx + 1],
                      pre |-> <<Bal(w, bal[w])>>, post |-> <<Bal(w, bal[w])>>,
                      mentions |-> {Payer},
                      instrs |-> <<Instr("thawAccount", w)>>])
       /\ frozen' = frozen \ {w}
  /\ nUserTx' = nUserTx + 1
  /\ lastRun' = [lastRun EXCEPT !.chainUnchanged = FALSE]
  /\ UNCHANGED <<bal, fileVars, flags, nFail, pc, whitelist, greylist, state,
                 scanned_wallets_in_run, all_signatures_in_run,
                 processed_signatures_in_run, current_monitored_set,
                 analysis_monitored_set, wallets_to_scan_this_pass,
                 sorted_signatures, initial_greylist_size, pass_num,
                 runStart, chainStart, scanCount, classLog, fetchFailed>>

\* ------------------------------------------- PeriodicChecker: pure functions
\* get_new_signatures_paginated: one page of the wallet's history h (newest
\* first), starting behind the signature `before`
PageOf(h, before) ==
  LET start == IF before = NoSig THEN 1
               ELSE (CHOOSE i \in 1..Len(h) : h[i] = before) + 1
      stop == IF start + PageLimit - 1 < Len(h) THEN start + PageLimit - 1 ELSE Len(h)
  IN SubSeq(h, start, stop)

\* variant: the loop does not stop at last_known_sig
BatchPrefix_Whole(batch, last_known_sig) == batch

\* the inner for-loop: the entries of the batch in front of last_known_sig
BatchPrefix(batch, last_known_sig) ==
  IF last_known_sig # NoSig /\ \E i \in 1..Len(batch) : batch[i] = last_known_sig
  THEN SubSeq(batch, 1, (CHOOSE i \in 1..Len(batch) : batch[i] = last_known_sig) - 1)
  ELSE batch

FoundLastKnown(batch, last_known_sig) ==
  last_known_sig # NoSig /\ \E i \in 1..Len(batch) : batch[i] = last_known_sig

RECURSIVE Paginate(_, _, _, _)
Paginate(h, last_known_sig, before_sig, all_new_signatures) ==
  LET batch == PageOf(h, before_sig)
  IN IF batch = <<>> THEN all_new_signatures
     ELSE LET collected == all_new_signatures \o BatchPrefix(batch, last_known_sig)
          IN IF FoundLastKnown(batch, last_known_sig) \/ Len(batch) < PageLimit
             THEN collected
             ELSE Paginate(h, last_known_sig, batch[Len(batch)], collected)

\* the result when no call fails: oldest first
get_new_signatures_paginated(wallet_address, last_known_signature) ==
  Reverse(Paginate(HistoryOf(wallet_address, chain), last_known_signature, NoSig, <<>>))

\* variant: a call that raises returns the signatures of the pages read so far
FetchNewSignatures_KeepPartial(wallet_address, last_known_signature, raised) ==
  IF raised
  THEN Reverse(BatchPrefix(PageOf(HistoryOf(wallet_address, chain), NoSig),
                           last_known_signature))
  ELSE get_new_signatures_paginated(wallet_address, last_known_signature)

\* get_new_signatures_paginated with its except clause: when a call of
\* get_signatures_for_address raises (on whichever page), `return []`
FetchNewSignatures(wallet_address, last_known_signature, raised) ==
  IF raised THEN <<>>
  ELSE get_new_signatures_paginated(wallet_address, last_known_signature)

\* owner_balances: a dict in insertion order, owner -> signed change (raw units)
DictAdd(d, k, v) ==
  IF \E i \in 1..Len(d) : d[i].owner = k
  THEN [i \in 1..Len(d) |->
          IF d[i].owner = k THEN [owner |-> k, change |-> d[i].change + v] ELSE d[i]]
  ELSE Append(d, [owner |-> k, change |-> v])

RECURSIVE FoldEntries(_, _, _)
FoldEntries(d, entries, sign) ==
  IF entries = <<>> THEN d
  ELSE FoldEntries(DictAdd(d, Head(entries).owner, sign * Head(entries).amount),
                   Tail(entries), sign)

OwnerBalances(tx) == FoldEntries(FoldEntries(<<>>, tx.pre, -1), tx.post, 1)

\* the loop over owner_balances.items(): the last owner with a negative change
\* is the sender (and sets the amount), the last with a positive one the
\* recipient.  The amount is kept in raw units (the code divides by
\* 10**TOKEN_DECIMALS).
RECURSIVE PickParties(_, _)
PickParties(items, acc) ==
  IF items = <<>> THEN acc
  ELSE LET e == Head(items)
       IN PickParties(Tail(items),
            IF e.change < 0 THEN [acc EXCEPT !.sender = e.owner, !.amount = -e.change]
            ELSE IF e.change > 0 THEN [acc EXCEPT !.recipient = e.owner]
            ELSE acc)

NoTransfer == [sender |-> NoWallet, recipient |-> NoWallet, amount |-> 0]

\* _analyze_transfers up to the test `if sender and recipient and amount > 0`
ReconstructTransfer(tx) ==
  IF tx.pre \o tx.post = <<>> THEN NoTransfer
  ELSE PickParties(OwnerBalances(tx), NoTransfer)

IsTransfer(tr) == tr.sender # NoWallet /\ tr.recipient # NoWallet /\ tr.amount > 0

\* variant: the greylist alone is monitored
MonitoredSet_GreylistOnly(wl, gl) == gl

\* current_monitored_set = self.whitelist.union(self.greylist)
MonitoredSet(wl, gl) == wl \cup gl

\* variant: recipients are classified against the set computed at the start
\* of the pass
AnalysisMonitoredSet_Snapshot(wl, gl) == current_monitored_set

\* analysis_monitored_set = self.whitelist.union(self.greylist)
AnalysisMonitoredSet(wl, gl) == wl \cup gl

\* variant: a flagged recipient is not added
GreylistAdd_Never(gl, recipient) == gl

\* variant: the greylist is replaced by the new recipient
GreylistAdd_Replace(gl, recipient) == {recipient}

\* self.greylist.add(recipient)
GreylistAdd(gl, recipient) == gl \cup {recipient}

\* variant: signatures analysed in an earlier pass are analysed again
SignaturesToAnalyze_All(all_sigs, processed) == all_sigs

\* all_signatures_in_run - processed_signatures_in_run
SignaturesToAnalyze(all_sigs, processed) == all_sigs \ processed

\* variant: only the wallets known at the start of the run are scanned
WalletsToScan_FirstPassOnly(monitored, scanned) ==
  IF scanned = {} THEN monitored ELSE {}

\* variant: wallets scanned in an earlier pass are scanned again
WalletsToScan_All(monitored, scanned) == monitored

\* current_monitored_set - scanned_wallets_in_run
WalletsToScan(monitored, scanned) == monitored \ scanned

\* variant: the cursor is set to the oldest of the new signatures
NewCursor_Oldest(new_signatures) == new_signatures[1]

\* state[wallet_address] = str(new_signatures[-1])
NewCursor(new_signatures) == new_signatures[Len(new_signatures)]

\* variant: an analysed signature is not recorded as processed
MarkProcessed_Skip(processed, sig) == processed

\* processed_signatures_in_run.add(sig)
MarkProcessed(processed, sig) == processed \cup {sig}

\* _log_event: one line of transactions.jsonl
LogEntry(sig, status, sender, recipient, amount, wallet) ==
  [signature |-> sig, status |-> status, sender |-> sender,
   recipient |-> recipient, amount |-> amount, wallet |-> wallet]

TransferStatuses == {"VIOLATION", "AUTHORIZED_TRANSFER"}

\* --------------------------------------------- PeriodicChecker: side effects
\* What one analysis changes outside run_check's locals: the chain (the
\* engine's own freeze transactions), the frozen accounts, the ledger, the
\* greylist, and the history of classifications.
FreezeOutcomes == {"ok", "rejected", "unconfirmed"}

EngineFreezeCount(c) == Cardinality({i \in 1..Len(c) : c[i].sig >= FreezeSigBase})

\* variant: the freeze record is written whatever the node answered
freeze_account_LogAlways(w, outcome, st) ==
  [st EXCEPT !.ledger = Append(@, LogEntry(FreezeSigBase + EngineFreezeCount(st.chain),
                                           "ACCOUNT_FROZEN_BY_SCRIPT",
                                           NoWallet, NoWallet, 0, w))]

\* _freeze_account.  outcome "rejected": get_latest_blockhash or
\* send_transaction raises; "unconfirmed": the transaction is sent and lands
\* but confirm_transaction raises; "ok": the node answers every call.  The
\* node rejects a freeze of an account that is already frozen, which raises
\* in send_transaction whatever the outcome.  failed counts the calls the
\* node failed to answer.
freeze_account(w, outcome, st) ==
  LET sig == FreezeSigBase + EngineFreezeCount(st.chain)
      lands == outcome # "rejected" /\ w \notin st.frozen
      tx == [sig |-> sig, pre |-> <<Bal(w, bal[w])>>, post |-> <<Bal(w, bal[w])>>,
             mentions |-> {Payer}, instrs |-> <<Instr("freezeAccount", w)>>]
  IN IF ~lands THEN [st EXCEPT !.failed = IF outcome = "ok" THEN @ ELSE @ + 1]
     ELSE [st EXCEPT
             !.chain = Append(@, tx),
             !.frozen = @ \cup {w},
             !.failed = IF outcome = "ok" THEN @ ELSE @ + 1,
             !.ledger = IF outcome = "ok"
                        THEN Append(@, LogEntry(sig, "ACCOUNT_FROZEN_BY_SCRIPT",
                                                NoWallet, NoWallet, 0, w))
                        ELSE @]

\* _analyze_transfers
analyze_transfers(sig, tx, monitored_wallets, fs, fr, st) ==
  LET tr == ReconstructTransfer(tx)
  IN IF ~IsTransfer(tr) THEN st
     ELSE IF tr.recipient \notin monitored_wallets
     THEN LET s1 == [st EXCEPT !.greylist = GreylistAdd(@, tr.recipient)]
              s2 == IF flags[1] THEN freeze_account(tr.sender, fs, s1) ELSE s1
              s3 == IF flags[2] THEN freeze_account(tr.recipient, fr, s2) ELSE s2
          IN [s3 EXCEPT
                !.ledger = Append(@, LogEntry(sig, "VIOLATION", tr.sender,
                                              tr.recipient, tr.amount, NoWallet)),
                !.classLog = Append(@, [signature |-> sig, recipient |-> tr.recipient,
                                        status |-> "VIOLATION", pass |-> pass_num,
                                        monitored |-> whitelist \cup st.greylist])]
     ELSE [st EXCEPT
             !.ledger = Append(@, LogEntry(sig, "AUTHORIZED_TRANSFER", tr.sender,
                                           tr.recipient, tr.amount, NoWallet)),
             !.classLog = Append(@, [signature |-> sig, recipient |-> tr.recipient,
                                     status |-> "AUTHORIZED_TRANSFER", pass |-> pass_num,
                                     monitored |-> whitelist \cup st.greylist])]

\* the owner of a token account, from the transaction's token balances
OwnerFromBalances(tx, account) ==
  LET entries == tx.pre \o tx.post
  IN IF \E i \in 1..Len(entries) : entries[i].owner = account
     THEN account ELSE NoWallet

\* _analyze_freeze_thaw: one ledger line per freezeAccount / thawAccount
\* instruction whose owner can be determined (lookupOk: the RPC fallback)
RECURSIVE analyze_freeze_thaw(_, _, _, _, _)
analyze_freeze_thaw(sig, tx, instrs, lookupOk, st) ==
  IF instrs = <<>> THEN st
  ELSE LET ins == Head(instrs)
           fromBal == OwnerFromBalances(tx, ins.account)
           owner_address == IF fromBal # NoWallet THEN fromBal
                            ELSE IF lookupOk THEN ins.account ELSE NoWallet
           status == IF ins.type = "freezeAccount" THEN "ACCOUNT_FROZEN"
                     ELSE "ACCOUNT_THAWED"
           next == IF owner_address = NoWallet THEN st
                   ELSE [st EXCEPT !.ledger = Append(@,
                           LogEntry(sig, status, NoWallet, NoWallet, 0, owner_address))]
       IN analyze_freeze_thaw(sig, tx, Tail(instrs), lookupOk, next)

\* variant: a transaction that could not be loaded is analysed all the same
analyze_transaction_Unchecked(sig, monitored_wallets, txOk, fs, fr, st) ==
  LET tx == TxBySig(sig)
      done == analyze_freeze_thaw(sig, tx, tx.instrs, TRUE,
                analyze_transfers(sig, tx, monitored_wallets, fs, fr, st))
  IN IF txOk THEN done ELSE [done EXCEPT !.failed = @ + 1]

\* analyze_transaction.  txOk = FALSE: get_transaction_with_retries returns None
analyze_transaction(sig, monitored_wallets, txOk, fs, fr, st) ==
  IF ~txOk THEN [st EXCEPT !.failed = @ + 1]
  ELSE LET tx == TxBySig(sig)
       IN analyze_freeze_thaw(sig, tx, tx.instrs, TRUE,
            analyze_transfers(sig, tx, monitored_wallets, fs, fr, st))

\* ------------------------------------------------ PeriodicChecker.run_check
NoCursor == [w \in Wallets |-> NoSig]
NoScans == [w \in Wallets |-> 0]

NoRun == [finished |-> FALSE, fetchFailed |-> FALSE, froze |-> FALSE,
          chainUnchanged |-> FALSE]

\* the locals of run_check when no run is under way
LocalsReset ==
  /\ scanned_wallets_in_run' = {}
  /\ all_signatures_in_run' = {}
  /\ processed_signatures_in_run' = {}
  /\ current_monitored_set' = {}
  /\ analysis_monitored_set' = {}
  /\ wallets_to_scan_this_pass' = {}
  /\ sorted_signatures' = <<>>
  /\ initial_greylist_size' = 0
  /\ pass_num' = 1
  /\ scanCount' = NoScans
  /\ classLog' = <<>>
  /\ fetchFailed' = FALSE

\* load_state: the cursors of the file, none when the file is not valid JSON
load_state(readable) == IF readable THEN stateFile ELSE NoCursor

\* variant: the run goes on with an empty whitelist
AfterLoad_NoCheck(loaded_whitelist) == "pass"

\* `if not self.whitelist: ... return`: where run_check is after loading
AfterLoad(loaded_whitelist) ==
  IF loaded_whitelist = {} THEN "idle" ELSE "pass"

\* 1. load whitelist, greylist and cursors; an empty whitelist ends the run
StartRun ==
  /\ UNCHANGED <<pushVars, nUnreadable, nAbort, validateVars, calls>>
  /\ pc = "idle"
  /\ whitelist' = whitelistFile
  /\ greylist' = greylistFile
  /\ state' = load_state(TRUE)
  /\ pc' = AfterLoad(whitelistFile)
  /\ runStart' = Len(ledger)
  /\ chainStart' = Len(chain)
  /\ LocalsReset
  /\ UNCHANGED <<chainVars, fileVars, flags, nFail, lastRun>>

\* a run that finds a cursor file it cannot decode (json.JSONDecodeError)
StartRunUnreadable ==
  /\ UNCHANGED <<pushVars, nAbort, validateVars, calls>>
  /\ pc = "idle"
  /\ stateFile # NoCursor
  /\ nUnreadable < MaxUnreadable
  /\ nUnreadable' = nUnreadable + 1
  /\ whitelist' = whitelistFile
  /\ greylist' = greylistFile
  /\ state' = load_state(FALSE)
  /\ pc' = AfterLoad(whitelistFile)
  /\ runStart' = Len(ledger)
  /\ chainStart' = Len(chain)
  /\ LocalsReset
  /\ UNCHANGED <<chainVars, fileVars, flags, nFail, lastRun>>

\* 3.-5. top of the while loop and the scan of the due wallets:
\* `for wallet_address in wallets_to_scan_this_pass` (a set; the order of the
\* iterations does not show in the result).  failSet: the wallets for which
\* get_signatures_for_address raises, so that get_new_signatures_paginated
\* returns [].  Then the signatures not analysed yet in this run are sorted.
ScanPass ==
  /\ UNCHANGED <<pushVars, nUnreadable, nAbort, validateVars, calls>>
  /\ pc = "pass"
  /\ LET monitored == MonitoredSet(whitelist, greylist)
         due == WalletsToScan(monitored, scanned_wallets_in_run)
     IN /\ current_monitored_set' = monitored
        /\ wallets_to_scan_this_pass' = due
        /\ IF due = {}
           THEN /\ pc' = "persist"
                /\ UNCHANGED <<state, scanned_wallets_in_run, all_signatures_in_run,
                               sorted_signatures, initial_greylist_size, pass_num,
                               scanCount, nFail, fetchFailed>>
           ELSE \E failSet \in SUBSET due :
                  /\ nFail + Cardinality(failSet) <= MaxFail
                  /\ LET new_signatures(w) ==
                           FetchNewSignatures(w, state[w], w \in failSet)
                         all_sigs == all_signatures_in_run \cup
                                     UNION {Range(new_signatures(w)) : w \in due}
                         signatures_to_analyze_now ==
                           SignaturesToAnalyze(all_sigs, processed_signatures_in_run)
                     IN /\ all_signatures_in_run' = all_sigs
                        /\ state' = [w \in Wallets |->
                                       IF w \in due /\ new_signatures(w) # <<>>
                                       THEN NewCursor(new_signatures(w))
                                       ELSE state[w]]
                        /\ scanned_wallets_in_run' = scanned_wallets_in_run \cup due
                        /\ scanCount' = [w \in Wallets |->
                                           IF w \in due THEN scanCount[w] + 1
                                           ELSE scanCount[w]]
                        /\ nFail' = nFail + Cardinality(failSet)
                        /\ fetchFailed' = (fetchFailed \/ failSet # {})
                        /\ IF signatures_to_analyze_now = {}
                           THEN /\ pass_num < MaxPasses
                                /\ pass_num' = pass_num + 1
                                /\ pc' = "pass"
                                /\ UNCHANGED <<sorted_signatures, initial_greylist_size>>
                           ELSE /\ initial_greylist_size' = Cardinality(greylist)
                                /\ sorted_signatures' = SortedSigs(signatures_to_analyze_now)
                                /\ pc' = "analyze"
                                /\ UNCHANGED pass_num
  /\ UNCHANGED <<chainVars, fileVars, flags, whitelist, greylist,
                 processed_signatures_in_run, analysis_monitored_set,
                 runStart, chainStart, classLog, lastRun>>

\* a list without its i-th element
Without(seq, i) == SubSeq(seq, 1, i - 1) \o SubSeq(seq, i + 1, Len(seq))

\* one iteration of `for i, sig in enumerate(sorted_signatures)`; after the
\* last one, 6.: the loop goes on while the greylist grew in this pass
AnalyzeAt(i) ==
  /\ UNCHANGED <<pushVars, nUnreadable, nAbort, validateVars, calls>>
  /\ pc = "analyze"
  /\ i \in 1..Len(sorted_signatures)
  /\ LET sig == sorted_signatures[i]
         mon == AnalysisMonitoredSet(whitelist, greylist)
         tr == ReconstructTransfer(TxBySig(sig))
         violates == IsTransfer(tr) /\ tr.recipient \notin mon
         st0 == [chain |-> chain, frozen |-> frozen, ledger |-> ledger,
                 greylist |-> greylist, classLog |-> classLog, failed |-> 0]
     IN \E txOk \in BOOLEAN,
           fs \in IF violates /\ flags[1] THEN FreezeOutcomes ELSE {"ok"},
           fr \in IF violates /\ flags[2] THEN FreezeOutcomes ELSE {"ok"} :
          LET st == analyze_transaction(sig, mon, txOk, fs, fr, st0)
          IN /\ nFail + st.failed <= MaxFail
             /\ analysis_monitored_set' = mon
             /\ chain' = st.chain
             /\ frozen' = st.frozen
             /\ ledger' = st.ledger
             /\ greylist' = st.greylist
             /\ classLog' = st.classLog
             /\ nFail' = nFail + st.failed
             /\ IF Without(sorted_signatures, i) # <<>>
                THEN UNCHANGED <<pc, pass_num>>
                ELSE IF Cardinality(st.greylist) = initial_greylist_size
                THEN pc' = "persist" /\ UNCHANGED pass_num
                ELSE pass_num < MaxPasses /\ pc' = "pass" /\ pass_num' = pass_num + 1
  /\ processed_signatures_in_run' =
       MarkProcessed(processed_signatures_in_run, sorted_signatures[i])
  /\ sorted_signatures' = Without(sorted_signatures, i)
  /\ UNCHANGED <<bal, nUserTx, whitelistFile, greylistFile, stateFile, flags,
                 whitelist, state, scanned_wallets_in_run,
                 all_signatures_in_run, current_monitored_set,
                 wallets_to_scan_this_pass, initial_greylist_size,
                 runStart, chainStart, scanCount, fetchFailed, lastRun>>

\* the loop takes the signatures in the order of the sorted list
AnalyzeNext == AnalyzeAt(1)

\* 7. save_state(state)
SaveState ==
  /\ UNCHANGED <<pushVars, nUnreadable, nAbort, validateVars, calls>>
  /\ pc = "persist"
  /\ stateFile' = state
  /\ pc' = "persist_greylist"
  /\ UNCHANGED <<chainVars, whitelistFile, greylistFile, ledger, flags,
                 whitelist, greylist, state, scanned_wallets_in_run,
                 all_signatures_in_run, processed_signatures_in_run,
                 current_monitored_set, analysis_monitored_set,
                 wallets_to_scan_this_pass, sorted_signatures,
                 initial_greylist_size, pass_num,
                 runStart, chainStart, scanCount, classLog, fetchFailed,
                 lastRun, nFail>>

\* save_greylist(self.greylist); the run is over and its locals are gone
SaveGreylist ==
  /\ UNCHANGED <<pushVars, nUnreadable, nAbort, validateVars, calls>>
  /\ pc = "persist_greylist"
  /\ greylistFile' = greylist
  /\ pc' = IF perform_validation THEN "validate" ELSE "idle"
  /\ runStart' = Len(ledger)
  /\ chainStart' = Len(chain)
  /\ lastRun' = [finished |-> TRUE, fetchFailed |-> fetchFailed,
                 froze |-> Len(chain) > chainStart, chainUnchanged |-> TRUE]
  /\ LocalsReset
  /\ UNCHANGED <<chainVars, whitelistFile, stateFile, ledger, flags, nFail,
                 whitelist, greylist, state>>

\* run_check left by an exception (nothing in run_check catches one) or by
\* the operator's interrupt: the loop of __main__ logs it and starts the next
\* run later.  What the run has written so far stays written.
AbortRun ==
  /\ pc \in {"pass", "analyze", "persist", "persist_greylist"}
  /\ nAbort < MaxAbort
  /\ nAbort' = nAbort + 1
  /\ pc' = "idle"
  /\ runStart' = Len(ledger)
  /\ chainStart' = Len(chain)
  /\ lastRun' = NoRun
  /\ LocalsReset
  /\ UNCHANGED <<chainVars, fileVars, flags, nFail, whitelist, greylist, state,
                 pushVars, nUnreadable, validateVars, calls>>

\* ------------------------------------------------ _perform_supply_validation
TOKEN_DECIMALS == 9

\* bal and the amounts of the ledger count lots of 10**-4 token; the code's
\* amounts are tokens (raw units / 10**TOKEN_DECIMALS)
RawPerUnit == 10 ^ (TOKEN_DECIMALS - 4)

NoValidation == [done |-> FALSE, total_distributed |-> 0,
                 total_on_chain_balance |-> 0, ok |-> TRUE]

\* what get_token_account_balance adds to total_on_chain_balance for a
\* wallet: nothing when the call raises (no token account, or the node does
\* not answer)
BalanceCounted(w, unanswered) ==
  IF w \in unanswered \/ ~HasAta(w) THEN 0 ELSE bal[w] * RawPerUnit

\* 1. the amounts of the transfer records whose sender is the payer
RECURSIVE TotalDistributed(_)
TotalDistributed(log) ==
  IF log = <<>> THEN 0
  ELSE TotalDistributed(Tail(log)) +
       (IF Head(log).status \in TransferStatuses /\ Head(log).sender = Payer
        THEN Head(log).amount * RawPerUnit ELSE 0)

\* 2. the balances of the monitored wallets
RECURSIVE TotalOnChainBalance(_, _)
TotalOnChainBalance(monitored_wallets, unanswered) ==
  IF monitored_wallets = {} THEN 0
  ELSE LET w == CHOOSE x \in monitored_wallets : TRUE
       IN BalanceCounted(w, unanswered) +
          TotalOnChainBalance(monitored_wallets \ {w}, unanswered)

\* 3. discrepancy < 1e-4 (tokens)
perform_supply_validation(monitored_wallets, unanswered) ==
  LET total_distributed == TotalDistributed(ledger)
      total_on_chain_balance == TotalOnChainBalance(monitored_wallets, unanswered)
      discrepancy == IF total_distributed >= total_on_chain_balance
                     THEN total_distributed - total_on_chain_balance
                     ELSE total_on_chain_balance - total_distributed
  IN [done |-> TRUE, total_distributed |-> total_distributed,
      total_on_chain_balance |-> total_on_chain_balance,
      ok |-> discrepancy < 10 ^ (TOKEN_DECIMALS - 4)]

\* the end of run_check: `if self.perform_validation:
\* self._perform_supply_validation(self.whitelist.union(self.greylist))`
PerformSupplyValidation ==
  /\ pc = "validate"
  /\ pc' = "idle"
  /\ \E unanswered \in SUBSET (whitelist \cup greylist) :
       /\ nFail + Cardinality(unanswered) <= MaxFail
       /\ nFail' = nFail + Cardinality(unanswered)
       /\ validation' = perform_supply_validation(whitelist \cup greylist, unanswered)
  /\ UNCHANGED <<chainVars, fileVars, flags, whitelist, greylist, state,
                 scanned_wallets_in_run, all_signatures_in_run,
                 processed_signatures_in_run, current_monitored_set,
                 analysis_monitored_set, wallets_to_scan_this_pass,
                 sorted_signatures, initial_greylist_size, pass_num,
                 runStart, chainStart, scanCount, classLog, fetchFailed, lastRun,
                 pushVars, nUnreadable, nAbort, perform_validation, calls>>

\* ----------------------------------------- NetworkVisualizer.generate_graph
\* one line of the log file: `if 'FROZEN' in status: add frozen_wallet`,
\* `elif 'THAWED' in status: remove thawed_wallet`
FrozenStep(final_frozen_wallets, tx) ==
  IF tx.status \in {"ACCOUNT_FROZEN", "ACCOUNT_FROZEN_BY_SCRIPT"}
  THEN final_frozen_wallets \cup {tx.wallet}
  ELSE IF tx.status = "ACCOUNT_THAWED"
  THEN final_frozen_wallets \ {tx.wallet}
  ELSE final_frozen_wallets

\* final_frozen_wallets after the loop over the lines of the file
RECURSIVE FrozenView(_)
FrozenView(log) ==
  IF log = <<>> THEN {}
  ELSE FrozenStep(FrozenView(SubSeq(log, 1, Len(log) - 1)), log[Len(log)])

\* ------------------------------------------------------------- node calls
max_retries == 3

Responses == {"ok", "rate_limit", "error"}

\* the calls of the polling engine: get_transaction (through
\* get_transaction_with_retries), get_signatures_for_address (in
\* get_new_signatures_paginated), send_transaction (in _freeze_account)
CallKinds == {"get_transaction", "get_signatures_for_address", "send_transaction"}

NewCall(kind) == [kind |-> kind, responses |-> <<>>, waits |-> <<>>,
                  status |-> "running"]

\* get_transaction_with_retries: one iteration of `for attempt in
\* range(max_retries)`.  A 429 sleeps 2 ** (attempt + 1) seconds and goes
\* round again, any other SolanaRpcException returns None; after the loop
\* None is returned.
get_transaction_with_retries(c, resp) ==
  LET attempt == Len(c.responses)
      answered == [c EXCEPT !.responses = Append(@, resp)]
  IN IF resp = "ok" THEN [answered EXCEPT !.status = "returned"]
     ELSE IF resp = "rate_limit"
     THEN [answered EXCEPT !.waits = Append(@, 2 ^ (attempt + 1)),
                           !.status = IF attempt + 1 < max_retries
                                      THEN "running" ELSE "failed"]
     ELSE [answered EXCEPT !.status = "failed"]

\* the calls inside `try: ... except Exception as e: log; return [] / False`
\* of get_new_signatures_paginated and _freeze_account: one attempt
call_in_try(c, resp) ==
  [c EXCEPT !.responses = Append(@, resp),
            !.status = IF resp = "ok" THEN "returned" ELSE "failed"]

Running == calls # <<>> /\ calls[Len(calls)].status = "running"

BeginCall(kind) ==
  /\ ~Running
  /\ Len(calls) < MaxCalls
  /\ calls' = Append(calls, NewCall(kind))
  /\ UNCHANGED <<chainVars, fileVars, flags, nFail, pollVars, pushVars,
                 nUnreadable, nAbort, validateVars>>

NodeResponds(resp) ==
  /\ Running
  /\ LET c == calls[Len(calls)]
     IN calls' = [calls EXCEPT ![Len(calls)] =
                    IF c.kind = "get_transaction"
                    THEN get_transaction_with_retries(c, resp)
                    ELSE call_in_try(c, resp)]
  /\ UNCHANGED <<chainVars, fileVars, flags, nFail, pollVars, pushVars,
                 nUnreadable, nAbort, validateVars>>

\* ------------------------------------------------------ WhitelistMonitorBot
MaxOf(S) == CHOOSE x \in S : \A y \in S : y <= x

\* self.processed_signatures.append(signature_str) on a deque(maxlen): a full
\* deque drops its oldest element
DequeAppend(d, x) ==
  IF Len(d) >= DequeMaxLen THEN Tail(d) \o <<x>> ELSE Append(d, x)

\* the value of the last entry of the owner, 0 if there is none
LastAmount(entries, o) ==
  LET idx == {i \in 1..Len(entries) : entries[i].owner = o}
  IN IF idx = {} THEN 0 ELSE entries[MaxOf(idx)].amount

RECURSIVE KeysInOrder(_, _)
KeysInOrder(entries, acc) ==
  IF entries = <<>> THEN acc
  ELSE KeysInOrder(Tail(entries),
         IF Head(entries).owner \in Range(acc) THEN acc
         ELSE Append(acc, Head(entries).owner))

\* balance_changes: a dict in insertion order, owner -> post - pre
balance_changes(tx) ==
  LET keys == KeysInOrder(tx.pre \o tx.post, <<>>)
  IN [i \in 1..Len(keys) |->
        [owner |-> keys[i],
         change |-> LastAmount(tx.post, keys[i]) - LastAmount(tx.pre, keys[i])]]

TransferEntry(sig, status, sender, recipient, amount, frozen_wallets) ==
  [signature |-> sig, status |-> status, sender |-> sender,
   recipient |-> recipient, amount |-> amount, frozen_wallets |-> frozen_wallets]

BotTransferStatuses == {"AUTHORIZED", "VIOLATION_FROZEN"}

\* _log_transfer_if_present.  st: what it changes (the log, the counters, the
\* freeze tasks it creates).  With debug_mode off there is no return after
\* the test `if not sender or not recipient or amount == 0`.
log_transfer_under(debug, signature_str, tx, st) ==
  LET bc == balance_changes(tx)
      p == PickParties(bc, NoTransfer)
      sender == p.sender
      recipient == p.recipient
      known(w) == \E i \in 1..Len(bc) : bc[i].owner = w
  IN IF ~IsTransfer(p) /\ debug THEN st
     ELSE IF recipient \in bot_whitelist
     THEN [st EXCEPT !.log = Append(@, TransferEntry(signature_str, "AUTHORIZED",
                                         sender, recipient, p.amount, <<>>))]
     ELSE LET t1 == IF flags[2] /\ known(recipient)
                    THEN Append(st.freeze_tasks, recipient) ELSE st.freeze_tasks
              t2 == IF flags[2] /\ flags[1] /\ known(sender)
                    THEN Append(t1, sender) ELSE t1
              frozen_wallets ==
                IF ~flags[2] THEN <<>>
                ELSE IF flags[1] /\ sender # recipient THEN <<recipient, sender>>
                ELSE <<recipient>>
          IN [st EXCEPT
                !.stats.violations_detected = @ + 1,
                !.freeze_tasks = t2,
                !.log = Append(@, TransferEntry(signature_str, "VIOLATION_FROZEN",
                                    sender, recipient, p.amount, frozen_wallets))]

\* _log_transfer_if_present as the bot runs it, under self.debug_mode
log_transfer_if_present(signature_str, tx, st) ==
  log_transfer_under(debug_mode, signature_str, tx, st)

\* _log_freeze_thaw_if_present: the first freezeAccount / thawAccount
\* instruction whose owner is found is logged, then the loop breaks
RECURSIVE log_freeze_thaw_if_present(_, _, _, _)
log_freeze_thaw_if_present(signature_str, tx, instrs, st) ==
  IF instrs = <<>> THEN st
  ELSE LET ins == Head(instrs)
           wallet_owner == OwnerFromBalances(tx, ins.account)
       IN IF wallet_owner = NoWallet
          THEN log_freeze_thaw_if_present(signature_str, tx, Tail(instrs), st)
          ELSE [st EXCEPT !.log = Append(@,
                  IF ins.type = "freezeAccount"
                  THEN [signature |-> signature_str, status |-> "ACCOUNT_FROZEN",
                        frozen_wallet |-> wallet_owner]
                  ELSE [signature |-> signature_str, status |-> "ACCOUNT_THAWED",
                        thawed_wallet |-> wallet_owner])]

\* _analyze_transaction from the answer of get_transaction on: every
\* transaction of the chain carries the monitored mint
analyze_fetched_under(debug, signature_str, st) ==
  LET tx == TxBySig(signature_str)
      s1 == [st EXCEPT !.processed = DequeAppend(@, signature_str),
                       !.stats.transactions_analyzed = @ + 1]
  IN log_freeze_thaw_if_present(signature_str, tx, tx.instrs,
       log_transfer_under(debug, signature_str, tx, s1))

analyze_fetched(signature_str, st) ==
  analyze_fetched_under(debug_mode, signature_str, st)

BotState == [processed |-> processed_signatures, stats |-> stats,
             freeze_tasks |-> freeze_tasks, log |-> transaction_log]

\* set_debug_mode
set_debug_mode(enabled) ==
  /\ debug_mode # enabled
  /\ debug_mode' = enabled
  /\ UNCHANGED <<nUnreadable, nAbort, validateVars, calls, chainVars, fileVars, flags, nFail, pollVars, bot_whitelist,
                 processed_signatures, created, fetching, transaction_log,
                 stats, freeze_tasks, nNotified, fed>>

\* run: a logsNotification with a signature creates a task; the node may
\* deliver the notification of a transaction more than once
LogsNotification(sig) ==
  /\ nNotified < MaxNotify
  /\ \E i \in 1..Len(chain) : chain[i].sig = sig
  /\ created' = created (+) SetToBag({sig})
  /\ nNotified' = nNotified + 1
  /\ UNCHANGED <<nUnreadable, nAbort, validateVars, calls, chainVars, fileVars, flags, nFail, pollVars, debug_mode,
                 bot_whitelist, processed_signatures, fetching,
                 transaction_log, stats, freeze_tasks, fed>>

\* _analyze_transaction up to `await get_transaction`: a signature found in
\* processed_signatures ends the task
AnalyzeTransactionStart(sig) ==
  /\ BagIn(sig, created)
  /\ created' = created (-) SetToBag({sig})
  /\ fetching' = IF sig \in Range(processed_signatures) THEN fetching
                 ELSE fetching (+) SetToBag({sig})
  /\ UNCHANGED <<nUnreadable, nAbort, validateVars, calls, chainVars, fileVars, flags, nFail, pollVars, debug_mode,
                 bot_whitelist, processed_signatures, transaction_log, stats,
                 freeze_tasks, nNotified, fed>>

\* _analyze_transaction after the await.  ok = FALSE: get_transaction raises
\* or answers nothing; the task ends (by return with debug_mode on, by the
\* AttributeError / UnboundLocalError of line 281 with it off)
AnalyzeTransactionResume(sig) ==
  /\ BagIn(sig, fetching)
  /\ fetching' = fetching (-) SetToBag({sig})
  /\ \E ok \in BOOLEAN :
       IF ok
       THEN LET st == analyze_fetched(sig, BotState)
            IN /\ processed_signatures' = st.processed
               /\ stats' = st.stats
               /\ freeze_tasks' = st.freeze_tasks
               /\ transaction_log' = st.log
               /\ UNCHANGED nFail
       ELSE /\ nFail < MaxFail
            /\ nFail' = nFail + 1
            /\ UNCHANGED <<processed_signatures, stats, freeze_tasks, transaction_log>>
  /\ UNCHANGED <<nUnreadable, nAbort, validateVars, calls, chainVars, fileVars, flags, pollVars, debug_mode,
                 bot_whitelist, created, nNotified, fed>>

\* _freeze_account_on_chain, run as a task of its own.  "rejected":
\* get_latest_blockhash or send_transaction raises; the node rejects a freeze
\* of an account that is already frozen.
FreezeAccountOnChain ==
  /\ freeze_tasks # <<>>
  /\ freeze_tasks' = Tail(freeze_tasks)
  /\ \E outcome \in {"ok", "rejected"} :
       LET w == Head(freeze_tasks)
           sig == FreezeSigBase + EngineFreezeCount(chain)
           tx == [sig |-> sig, pre |-> <<Bal(w, bal[w])>>, post |-> <<Bal(w, bal[w])>>,
                  mentions |-> {Payer}, instrs |-> <<Instr("freezeAccount", w)>>]
       IN /\ outcome = "rejected" => nFail < MaxFail
          /\ nFail' = IF outcome = "rejected" THEN nFail + 1 ELSE nFail
          /\ IF outcome = "ok" /\ w \notin frozen
             THEN /\ chain' = Append(chain, tx)
                  /\ frozen' = frozen \cup {w}
                  /\ stats' = [stats EXCEPT !.accounts_frozen = @ + 1]
             ELSE UNCHANGED <<chain, frozen, stats>>
  /\ UNCHANGED <<nUnreadable, nAbort, validateVars, calls, bal, nUserTx, fileVars, flags, pollVars, debug_mode,
                 bot_whitelist, processed_signatures, created, fetching,
                 transaction_log, nNotified, fed>>

\* ------------------------------------------------------------ specification
InitFrom(whitelists, validate) ==
  /\ chain = <<>>
  /\ bal = [w \in Wallets |-> IF w = Payer THEN Supply ELSE 0]
  /\ frozen = {}
  /\ nUserTx = 0
  /\ whitelistFile \in whitelists
  /\ greylistFile = {}
  /\ stateFile = NoCursor
  /\ ledger = <<>>
  /\ flags \in FlagChoices
  /\ pc = "idle"
  /\ whitelist = {}
  /\ greylist = {}
  /\ state = NoCursor
  /\ scanned_wallets_in_run = {}
  /\ all_signatures_in_run = {}
  /\ processed_signatures_in_run = {}
  /\ current_monitored_set = {}
  /\ analysis_monitored_set = {}
  /\ wallets_to_scan_this_pass = {}
  /\ sorted_signatures = <<>>
  /\ initial_greylist_size = 0
  /\ pass_num = 1
  /\ runStart = 0
  /\ scanCount = NoScans
  /\ classLog = <<>>
  /\ fetchFailed = FALSE
  /\ chainStart = 0
  /\ lastRun = NoRun
  /\ nFail = 0
  /\ debug_mode = FALSE
  /\ bot_whitelist = whitelistFile
  /\ processed_signatures = <<>>
  /\ created = EmptyBag
  /\ fetching = EmptyBag
  /\ transaction_log = <<>>
  /\ stats = [transactions_analyzed |-> 0, violations_detected |-> 0,
              accounts_frozen |-> 0]
  /\ freeze_tasks = <<>>
  /\ nNotified = 0
  /\ fed = 0
  /\ nUnreadable = 0
  /\ nAbort = 0
  /\ calls = <<>>
  /\ perform_validation = validate
  /\ validation = NoValidation

Init == InitFrom(WhitelistChoices, FALSE)

RunStep ==
  \/ StartRun
  \/ ScanPass
  \/ AnalyzeNext
  \/ SaveState
  \/ SaveGreylist

Next == SubmitTransfer \/ RunStep

Spec == Init /\ [][Next]_vars

\* the bot and the users of the chain
BotStep ==
  \/ \E enabled \in BOOLEAN : set_debug_mode(enabled)
  \/ \E sig \in 1 .. FreezeSigBase + 2 * MaxTx : LogsNotification(sig)
  \/ \E sig \in 1 .. FreezeSigBase + 2 * MaxTx : AnalyzeTransactionStart(sig)
  \/ \E sig \in 1 .. FreezeSigBase + 2 * MaxTx : AnalyzeTransactionResume(sig)
  \/ FreezeAccountOnChain

NextPush == SubmitTransfer \/ BotStep

SpecPush == Init /\ [][NextPush]_vars

\* the polling engine over storage that can go bad between two runs
NextStorage == SubmitTransfer \/ RunStep \/ StartRunUnreadable

SpecStorage == Init /\ [][NextStorage]_vars

\* the polling engine with runs that an exception or the operator ends
NextAbort == SubmitTransfer \/ RunStep \/ AbortRun

SpecAbort == Init /\ [][NextAbort]_vars

\* whitelist.txt as load_whitelist finds it at the next run: between two runs
\* the operator has rewritten it (with the issuer's address, as the setup
\* writes it) or has emptied or removed it
RewriteWhitelist(addresses) ==
  /\ pc = "idle"
  /\ whitelistFile # addresses
  /\ whitelistFile' = addresses
  /\ UNCHANGED <<chainVars, greylistFile, stateFile, ledger, flags, nFail,
                 pollVars, pushVars, nUnreadable, nAbort, validateVars, calls>>

\* the polling engine with a whitelist file that changes between runs
NextRewrite ==
  \/ SubmitTransfer
  \/ RunStep
  \/ \E addresses \in {{}, {Payer}} : RewriteWhitelist(addresses)

SpecRewrite == Init /\ [][NextRewrite]_vars

\* the polling engine with the order of analysis left open: the signatures
\* of a pass are taken in any order (the code's order, sorted by their text,
\* is one of them)
NextOrder ==
  \/ SubmitTransfer
  \/ StartRun \/ ScanPass \/ SaveState \/ SaveGreylist
  \/ \E i \in 1..Len(sorted_signatures) : AnalyzeAt(i)

SpecOrder == Init /\ [][NextOrder]_vars

\* the polling engine over a chain on which accounts are thawed as well
NextThaw == SubmitTransfer \/ SubmitThaw \/ RunStep

SpecThaw == Init /\ [][NextThaw]_vars

\* the node calls of the engine, one after the other, against a node that
\* answers, rate-limits or fails
NextCalls ==
  \/ \E kind \in CallKinds : BeginCall(kind)
  \/ \E resp \in Responses : NodeResponds(resp)

SpecCalls == Init /\ [][NextCalls]_vars

\* the polling engine started with --validate, over a whitelist that holds
\* the payer and a user
ValidateWhitelistChoices == {{"A", "B"}}

InitValidate == InitFrom(ValidateWhitelistChoices, TRUE)

NextValidate == SubmitTransfer \/ RunStep \/ PerformSupplyValidation

SpecValidate == InitValidate /\ [][NextValidate]_vars

\* Both analysers are fed the transactions of the chain one by one, in chain
\* order and without a failing node call: the PeriodicChecker as run_check
\* applies its analysis (lists loaded, analyze_transaction against
\* Whitelist \cup Greylist, greylist saved), the bot as _analyze_transaction
\* does once get_transaction has answered.
FeedBoth ==
  /\ pc = "idle"
  /\ fed < Len(chain)
  /\ fed' = fed + 1
  /\ LET sig == chain[fed + 1].sig
         mon == AnalysisMonitoredSet(whitelistFile, greylistFile)
         st0 == [chain |-> chain, frozen |-> frozen, ledger |-> ledger,
                 greylist |-> greylistFile, classLog |-> <<>>, failed |-> 0]
         st == analyze_transaction(sig, mon, TRUE, "ok", "ok", st0)
         bot == analyze_fetched(sig, BotState)
     IN /\ whitelist' = whitelistFile
        /\ chain' = st.chain
        /\ frozen' = st.frozen
        /\ ledger' = st.ledger
        /\ greylistFile' = st.greylist
        /\ processed_signatures' = bot.processed
        /\ stats' = bot.stats
        /\ freeze_tasks' = bot.freeze_tasks
        /\ transaction_log' = bot.log
  /\ UNCHANGED <<nUnreadable, nAbort, validateVars, calls, bal, nUserTx, whitelistFile, stateFile, flags, nFail, pc,
                 greylist, state, scanned_wallets_in_run, all_signatures_in_run,
                 processed_signatures_in_run, current_monitored_set,
                 analysis_monitored_set, wallets_to_scan_this_pass,
                 sorted_signatures, initial_greylist_size, pass_num, runStart,
                 scanCount, chainStart, classLog, fetchFailed, lastRun,
                 debug_mode, bot_whitelist, created, fetching, nNotified>>

NextBoth == SubmitTransfer \/ FeedBoth \/ FreezeAccountOnChain

SpecBoth == Init /\ [][NextBoth]_vars

\* ================================================================== claims
\* the part of the ledger written by the current run
RunRecords == {i \in runStart + 1 .. Len(ledger) : TRUE}

\* (sender, recipient) of every transfer the chain holds, by balance deltas
TransferEdges ==
  UNION { LET ob == OwnerBalances(chain[i])
          IN {<<ob[a].owner, ob[b].owner>> :
                a \in {k \in 1..Len(ob) : ob[k].change < 0},
                b \in {k \in 1..Len(ob) : ob[k].change > 0}}
        : i \in 1..Len(chain) }

RECURSIVE ForwardClosure(_)
ForwardClosure(S) ==
  LET next == S \cup {e[2] : e \in {d \in TransferEdges : d[1] \in S}}
  IN IF next = S THEN S ELSE ForwardClosure(next)

Violations(log) == {i \in 1..Len(log) : log[i].status = "VIOLATION"}

\* C1: when a run reaches the point where it persists cursors and greylist,
\* every wallet that received the token through one or more forwarding hops
\* from a whitelisted sender is in Whitelist \cup Greylist and was scanned in
\* the run.  Stated for the runs the claim is easiest for: no node call has
\* failed so far.
C1_ClosureAtPersist ==
  (pc = "persist" /\ nFail = 0) =>
    /\ ForwardClosure(whitelist) \subseteq whitelist \cup greylist
    /\ ForwardClosure(whitelist) \subseteq scanned_wallets_in_run

RunRank ==
  LET unscanned == Cardinality(Wallets \ scanned_wallets_in_run)
      weight == 3 * MaxTx + 4
  IN CASE pc = "idle" -> 0
       [] pc = "persist_greylist" -> 1
       [] pc = "persist" -> 2
       [] pc = "pass" -> unscanned * weight + 3
       [] pc = "analyze" -> unscanned * weight + 3 + Len(sorted_signatures)

\* C3: run_check terminates, also over cyclic forwarding patterns: a run
\* under way is always at a step it can take (the analysis loop is entered
\* only with a signature to analyse), every step of it brings it closer to
\* its end (the variant decreases), every wallet is scanned at most once per
\* run, and the number of passes is bounded by the number of wallets.
C3_Terminates ==
  /\ [](pc \in {"idle", "pass", "analyze", "persist", "persist_greylist"})
  /\ [](pc = "analyze" => sorted_signatures # <<>>)
  /\ [](\A w \in Wallets : scanCount[w] <= 1)
  /\ [](pass_num <= Cardinality(Wallets) + 1)
  /\ [][pc # "idle" => RunRank' < RunRank]_vars

C3_Witness ==
  /\ pc = "persist" /\ pass_num >= 3
  /\ <<"B", "C">> \in TransferEdges /\ <<"C", "B">> \in TransferEdges
  /\ {"B", "C"} \subseteq scanned_wallets_in_run

\* C4: a transfer is AUTHORIZED exactly when its recipient is in
\* Whitelist \cup Greylist at the moment it is classified, VIOLATION otherwise;
\* the greylist gains exactly the recipients of the transfers classified
\* VIOLATION, and each addition is in force when the next transfer is
\* classified.
C4_Classification ==
  pc # "idle" =>
    /\ \A i \in 1..Len(classLog) :
         /\ classLog[i].status \in TransferStatuses
         /\ classLog[i].status = "AUTHORIZED_TRANSFER"
              <=> classLog[i].recipient \in classLog[i].monitored
    /\ greylist = greylistFile \cup {classLog[i].recipient : i \in Violations(classLog)}
    /\ \A i \in Violations(classLog) : \A j \in i + 1 .. Len(classLog) :
         classLog[i].recipient \in classLog[j].monitored

C4_Witness ==
  /\ pc # "idle" /\ pass_num = 1
  /\ \E i \in 1..Len(classLog) : \E j \in i + 1 .. Len(classLog) :
       /\ classLog[i].status = "VIOLATION"
       /\ classLog[j].status = "AUTHORIZED_TRANSFER"
       /\ classLog[j].recipient = classLog[i].recipient

\* C5: at every point of a run, every whitelisted wallet is in the monitored
\* set used for choosing the wallets to scan and in the one used for
\* classifying recipients.
C5_WhitelistMonitored ==
  /\ (pc \in {"analyze", "persist", "persist_greylist"} \/ pass_num > 1) =>
       /\ whitelist \subseteq current_monitored_set
       /\ whitelist \subseteq scanned_wallets_in_run
  /\ processed_signatures_in_run # {} => whitelist \subseteq analysis_monitored_set

C5_Witness ==
  /\ pc = "analyze" /\ processed_signatures_in_run # {}
  /\ greylist # {} /\ whitelist # {}

\* C6: within a run the greylist never loses a member.
C6_GreylistMonotone == [][pc # "idle" => greylist \subseteq greylist']_vars

C6_Witness ==
  /\ pc # "idle" /\ greylistFile # {}
  /\ greylistFile \subseteq greylist /\ greylist # greylistFile

\* C7 as claimed: no signature appears in more than one ledger record written
\* during a single run.
C7_SignatureOnce ==
  \A i \in RunRecords : \A j \in RunRecords :
    i # j => ledger[i].signature # ledger[j].signature

\* C7 as amended: no signature appears in more than one transfer record
\* written during a single run; a transaction that carries freezeAccount /
\* thawAccount instructions adds one record with the same signature for each
\* of them.
C7_OneTransferRecordPerSignature ==
  \A i \in RunRecords :
    LET sig == ledger[i].signature
        same == {j \in RunRecords : ledger[j].signature = sig}
        transfers == {j \in same : ledger[j].status \in TransferStatuses}
        observed == {j \in same : ledger[j].status \in {"ACCOUNT_FROZEN", "ACCOUNT_THAWED"}}
    IN /\ Cardinality(transfers) <= 1
       /\ Cardinality(observed) <= Len(TxBySig(sig).instrs)
       /\ Cardinality(same) = Cardinality(transfers) + Cardinality(observed)
                              + (IF sig >= FreezeSigBase /\ observed = {} THEN 1 ELSE 0)

C7_Witness ==
  \E i \in RunRecords : \E j \in RunRecords :
    /\ i # j /\ ledger[i].signature = ledger[j].signature
    /\ ledger[i].status \in TransferStatuses
    /\ ledger[j].status = "ACCOUNT_FROZEN"

\* C8: in a polling run every classified transfer is written to the ledger
\* exactly once, also when its signature is in the histories of several
\* monitored wallets scanned in the same or in different passes.
C8_TransferLoggedOnce ==
  pc # "idle" =>
    /\ \A i \in 1..Len(classLog) :
         /\ Cardinality({k \in RunRecords :
                           /\ ledger[k].signature = classLog[i].signature
                           /\ ledger[k].status \in TransferStatuses}) = 1
         /\ \E k \in RunRecords :
              /\ ledger[k].signature = classLog[i].signature
              /\ ledger[k].status = classLog[i].status
              /\ ledger[k].recipient = classLog[i].recipient
         /\ \A j \in 1..Len(classLog) :
              classLog[j].signature = classLog[i].signature => j = i
    /\ Cardinality({k \in RunRecords : ledger[k].status \in TransferStatuses})
         = Len(classLog)

C8_Witness ==
  /\ pc # "idle" /\ pass_num >= 2
  /\ \E i \in 1..Len(classLog) : \E w1 \in scanned_wallets_in_run :
     \E w2 \in scanned_wallets_in_run \ {w1} :
       /\ classLog[i].signature \in Range(HistoryOf(w1, chain))
       /\ classLog[i].signature \in Range(HistoryOf(w2, chain))
       /\ w1 \in whitelist /\ w2 \in greylist \ greylistFile

BotTransferRecords(sig) ==
  {i \in 1..Len(transaction_log) :
     /\ transaction_log[i].signature = sig
     /\ transaction_log[i].status \in BotTransferStatuses}

\* C9: in push mode a signature notified more than once is analysed and
\* written to the audit ledger at most once, under every interleaving of the
\* analysis tasks: no signature has two transfer records, and no more
\* analyses are counted than the chain has transactions.
C9_AnalysedAtMostOnce ==
  /\ \A i \in 1..Len(chain) : Cardinality(BotTransferRecords(chain[i].sig)) <= 1
  /\ stats.transactions_analyzed <= Len(chain)

\* C10: fed the same sequence of transfers with the same whitelist, the bot
\* and the PeriodicChecker classify every transfer the same way: a transfer
\* is AUTHORIZED in the bot's log exactly when it is AUTHORIZED_TRANSFER in
\* the PeriodicChecker's ledger.
C10_SameClassification ==
  \A i \in 1..Len(ledger) : \A j \in 1..Len(transaction_log) :
    (/\ ledger[i].status \in TransferStatuses
     /\ transaction_log[j].status \in BotTransferStatuses
     /\ ledger[i].signature = transaction_log[j].signature)
    => (ledger[i].status = "AUTHORIZED_TRANSFER"
          <=> transaction_log[j].status = "AUTHORIZED")

\* position of a signature's transaction on the chain
ChainPos(sig) == CHOOSE i \in 1..Len(chain) : chain[i].sig = sig

\* C11: within one wallet's history transfers are analysed oldest-first: of
\* two signatures of the same wallet analysed (and logged) in a run, the one
\* that is earlier on the chain is analysed first.
C11_OldestFirst ==
  pc # "idle" =>
    \A i \in 1..Len(classLog) : \A j \in i + 1 .. Len(classLog) :
      \A w \in Wallets :
        (/\ classLog[i].signature \in Range(HistoryOf(w, chain))
         /\ classLog[j].signature \in Range(HistoryOf(w, chain)))
        => ChainPos(classLog[i].signature) < ChainPos(classLog[j].signature)

\* the cursors to try on a history: none, every signature of the history,
\* and a signature that is on no history
Cursors(h) == {NoSig} \cup Range(h) \cup {FreezeSigBase + 2 * MaxTx + 1}

\* the signatures of a history h (newest first) that are newer than the
\* cursor, oldest first; the whole history when the cursor is not in it
NewerThan(h, cursor) ==
  IF \E i \in 1..Len(h) : h[i] = cursor
  THEN Reverse(SubSeq(h, 1, (CHOOSE i \in 1..Len(h) : h[i] = cursor) - 1))
  ELSE Reverse(h)

\* C12: for every wallet history and every cursor (none, one of the history,
\* one that is not in the history) get_new_signatures_paginated returns
\* exactly the signatures newer than the cursor, each once, oldest first,
\* however many pages the history takes.
C12_PaginationExact ==
  \A w \in Wallets : \A cursor \in Cursors(HistoryOf(w, chain)) :
    LET got == get_new_signatures_paginated(w, cursor)
    IN /\ got = NewerThan(HistoryOf(w, chain), cursor)
       /\ \A i \in 1..Len(got) : \A j \in 1..Len(got) : got[i] = got[j] => i = j
       /\ \A i \in 1..Len(got) : \A j \in i + 1 .. Len(got) :
            ChainPos(got[i]) < ChainPos(got[j])

\* a run has scanned the payer from a cursor and got more than one page
C12_Witness ==
  /\ pc = "analyze" /\ pass_num = 1
  /\ stateFile[Payer] # NoSig
  /\ Payer \in scanned_wallets_in_run
  /\ Len(get_new_signatures_paginated(Payer, stateFile[Payer])) > PageLimit
  /\ Range(get_new_signatures_paginated(Payer, stateFile[Payer]))
       \subseteq all_signatures_in_run
  /\ stateFile[Payer] \notin all_signatures_in_run

\* cursor a is newer than cursor b
Newer(a, b) == a # NoSig /\ (b = NoSig \/ ChainPos(a) > ChainPos(b))

\* C13: a wallet's cursor only advances: the cursor map written by a run
\* never holds, for any wallet, a signature older than the one the file held
\* before (or none where it held one), also when the run started from a
\* cursor file it could not read.
C13_CursorMonotone ==
  [][\A w \in Wallets :
       stateFile'[w] # stateFile[w] => Newer(stateFile'[w], stateFile[w])]_vars

\* C14: with recipient-freeze enabled, a transfer from a whitelisted wallet
\* to a wallet that is not monitored puts the recipient on the greylist and
\* appends a VIOLATION record, and the FROZEN record of the recipient is
\* appended after that VIOLATION record: every record of a freeze by the
\* engine has the VIOLATION record of its wallet somewhere before it.
C14_FrozenAfterViolation ==
  \A k \in 1..Len(ledger) :
    ledger[k].status = "ACCOUNT_FROZEN_BY_SCRIPT" =>
      /\ ledger[k].wallet \in greylist \cup greylistFile
      /\ \E i \in 1 .. k - 1 :
           /\ ledger[i].status = "VIOLATION"
           /\ ledger[i].recipient = ledger[k].wallet
           /\ ledger[i].amount > 0

\* the records a step appends to the ledger
Appended == SubSeq(ledger', Len(ledger) + 1, Len(ledger'))

\* C15: when the freeze of a violating transfer's recipient fails (the node
\* rejects it, or it is sent but not confirmed), no freeze record of the
\* engine is written for that wallet, the VIOLATION record of the transfer is
\* still appended, the recipient is on the greylist, and the run goes on with
\* the remaining signatures, or with the next pass.
C15_FreezeFailureTolerated ==
  [][(/\ pc = "analyze" /\ flags[2]
      /\ greylist' # greylist
      /\ ~(Len(chain') > Len(chain) /\ nFail' = nFail))
     => LET sig == Head(sorted_signatures)
            tr == ReconstructTransfer(TxBySig(sig))
        IN /\ \E k \in 1..Len(Appended) :
                /\ Appended[k].status = "VIOLATION"
                /\ Appended[k].signature = sig
                /\ Appended[k].recipient = tr.recipient
           /\ \A k \in 1..Len(Appended) :
                Appended[k].status # "ACCOUNT_FROZEN_BY_SCRIPT"
           /\ greylist' = greylist \cup {tr.recipient}
           /\ sig \in processed_signatures_in_run'
           /\ sorted_signatures' = Tail(sorted_signatures)
           /\ pc' = IF sorted_signatures' # <<>> THEN "analyze" ELSE "pass"]_vars

\* a freeze has failed, the violation is in the ledger, and the run is at the
\* next signature
C15_Witness ==
  /\ pc = "analyze" /\ flags[2] /\ nFail > 0 /\ ~fetchFailed
  /\ Len(ledger) > runStart
  /\ ledger[Len(ledger)].status = "VIOLATION"
  /\ ledger[Len(ledger)].recipient \in greylist \ greylistFile
  /\ \A k \in RunRecords : ledger[k].status # "ACCOUNT_FROZEN_BY_SCRIPT"
  /\ Len(ledger) = runStart + 1

\* C16: when several owners' balances change in one transaction, every
\* recipient (owner with a positive change) of a transaction that has a
\* transfer record has a transfer record of its own for that signature, and an
\* unauthorized one is greylisted.
C16_EveryPairingReported ==
  \A k \in 1..Len(ledger) :
    ledger[k].status \in TransferStatuses =>
      LET changes == OwnerBalances(TxBySig(ledger[k].signature))
      IN \A n \in 1..Len(changes) :
           changes[n].change > 0 =>
             /\ \E j \in 1..Len(ledger) :
                  /\ ledger[j].status \in TransferStatuses
                  /\ ledger[j].signature = ledger[k].signature
                  /\ ledger[j].recipient = changes[n].owner
             /\ changes[n].owner \in whitelist \cup greylist \cup greylistFile

\* C17: a transaction in which no owner's balance of the token decreases, or
\* none increases, produces no transfer record (here: in the log of the push
\* bot), no violation count and no entry in a record's frozen_wallets.
C17_NoRecordWithoutTransfer ==
  \A i \in 1..Len(transaction_log) :
    transaction_log[i].status \in BotTransferStatuses =>
      IsTransfer(ReconstructTransfer(TxBySig(transaction_log[i].signature)))

\* the pass with this number has ended
PassEnded(p) ==
  \/ pass_num > p
  \/ pass_num = p /\ pc \in {"persist", "persist_greylist"}

\* C18: when wallet B was flagged in pass p and B had forwarded tokens to a
\* wallet C, then, the node answering every request, at the end of pass p + 1
\* the transfer B -> C is in the ledger, C is in the monitored set, and if the
\* transfer was a violation and freezing is on, C's account is frozen.
C18_ForwardDiscovered ==
  (nFail = 0 /\ pc # "idle") =>
    \A i \in Violations(classLog) :
      PassEnded(classLog[i].pass + 1) =>
        \A k \in 1..Len(chain) :
          LET tr == ReconstructTransfer(chain[k])
          IN (IsTransfer(tr) /\ tr.sender = classLog[i].recipient) =>
               /\ tr.recipient \in whitelist \cup greylist
               /\ \E j \in 1..Len(ledger) :
                    /\ ledger[j].signature = chain[k].sig
                    /\ ledger[j].status \in TransferStatuses
                    /\ ledger[j].sender = tr.sender
                    /\ ledger[j].recipient = tr.recipient
               /\ \A j \in 1..Len(ledger) :
                    (/\ ledger[j].signature = chain[k].sig
                     /\ ledger[j].status = "VIOLATION"
                     /\ flags[2]) => tr.recipient \in frozen

\* B was flagged in one pass, its forward to C was found in the next, and C
\* is greylisted and frozen
C18_Witness ==
  /\ nFail = 0 /\ pc = "persist" /\ flags[2]
  /\ \E i \in Violations(classLog) : \E j \in Violations(classLog) :
       /\ classLog[j].pass = classLog[i].pass + 1
       /\ \E k \in RunRecords :
            /\ ledger[k].signature = classLog[j].signature
            /\ ledger[k].status = "VIOLATION"
            /\ ledger[k].sender = classLog[i].recipient
            /\ ledger[k].recipient = classLog[j].recipient
       /\ classLog[j].recipient \in (greylist \ greylistFile) \cap frozen

\* the tokens held by a set of wallets
RECURSIVE Held(_)
Held(S) ==
  IF S = {} THEN 0
  ELSE LET w == CHOOSE x \in S : TRUE IN bal[w] + Held(S \ {w})

\* C19: when every transfer of the chain (there is one at least) is in the
\* ledger as AUTHORIZED_TRANSFER and the monitored wallets hold the whole supply, the
\* validation that has just run (every balance answered) reports success.
C19_ValidationSucceeds ==
  (/\ validation.done /\ pc = "idle" /\ ~lastRun.fetchFailed /\ nFail = 0
   /\ \A k \in 1..Len(chain) :
        IsTransfer(ReconstructTransfer(chain[k])) =>
          \E j \in 1..Len(ledger) : ledger[j].signature = chain[k].sig
   /\ ledger # <<>>
   /\ \A j \in 1..Len(ledger) : ledger[j].status = "AUTHORIZED_TRANSFER"
   /\ Held(whitelist \cup greylist) = Supply)
  => validation.ok

\* the pass loop has ended: every monitored wallet is scanned and every
\* signature found in this run is analysed
Stable ==
  /\ whitelist \cup greylist \subseteq scanned_wallets_in_run
  /\ all_signatures_in_run \subseteq processed_signatures_in_run
  /\ sorted_signatures = <<>>

\* C20: the cursor file and the greylist file change only in the two saving
\* steps, which the run takes with the pass loop ended in the stable state;
\* after the cursor file is written the run does not scan or analyse again;
\* a run that an exception ends has not written the cursor file (the greylist
\* file is written after it).
C20_PersistOnlyAtEnd ==
  [][/\ (stateFile' # stateFile \/ greylistFile' # greylistFile)
          => (pc \in {"persist", "persist_greylist"} /\ Stable)
     /\ pc \in {"persist", "persist_greylist"}
          => (/\ pc' \notin {"pass", "analyze"}
              /\ ledger' = ledger /\ chain' = chain /\ greylist' = greylist)
     /\ nAbort' # nAbort => pc # "persist_greylist"]_vars

\* the signatures a scan of the due wallets finds when the calls for the
\* wallets in failed raise
FoundBy(due, failed) ==
  UNION {Range(get_new_signatures_paginated(w, state[w])) : w \in due \ failed}

\* C21: in a scan in which the fetch of k wallets fails, these k wallets add
\* no signature and keep their cursor, every due wallet is still scanned (the
\* others add their signatures and move their cursor); and the cursor
\* that is saved is in front of every signature of the wallet that the run
\* did not fetch, so that the next run fetches it.
C21_FetchFailureSkipsWallet ==
  [][/\ (pc = "pass" /\ nFail' > nFail) =>
          LET due == WalletsToScan(MonitoredSet(whitelist, greylist),
                                   scanned_wallets_in_run)
          IN /\ scanned_wallets_in_run' = scanned_wallets_in_run \cup due
             /\ \E failed \in SUBSET due :
                  /\ Cardinality(failed) = nFail' - nFail
                  /\ \A w \in failed : state'[w] = state[w]
                  /\ all_signatures_in_run' =
                       all_signatures_in_run \cup FoundBy(due, failed)
                  /\ \A w \in due \ failed :
                       LET got == get_new_signatures_paginated(w, state[w])
                       IN state'[w] = IF got = <<>> THEN state[w] ELSE NewCursor(got)
     /\ pc = "persist" =>
          \A w \in Wallets :
            \A sig \in Range(get_new_signatures_paginated(w, stateFile[w])) :
              sig \notin all_signatures_in_run =>
                sig \in Range(get_new_signatures_paginated(w, stateFile'[w]))]_vars

\* the fetch for one of two due wallets has failed: its signatures are
\* missing and its cursor is the old one, the other wallet's are there
C21_Witness ==
  /\ pc = "analyze" /\ fetchFailed
  /\ \E w \in wallets_to_scan_this_pass : \E v \in wallets_to_scan_this_pass :
       /\ w # v
       /\ state[w] = stateFile[w]
       /\ get_new_signatures_paginated(w, state[w]) # <<>>
       /\ ~(Range(get_new_signatures_paginated(w, state[w]))
              \subseteq all_signatures_in_run)
       /\ state[v] # stateFile[v]
       /\ state[v] \in all_signatures_in_run

C23_BoundedRetry ==
  \A i \in 1..Len(calls) :
    LET c == calls[i]
        n == Len(c.responses)
    IN /\ n <= max_retries
       /\ \A k \in 1..n - 1 : c.responses[k] = "rate_limit"
       /\ \A k \in 1..Len(c.waits) - 1 : c.waits[k + 1] = 2 * c.waits[k]
       /\ (c.status = "failed" /\ c.responses[n] = "rate_limit") => n = max_retries
       /\ (c.status = "running" /\ n > 0) => c.responses[n] = "rate_limit"

\* the positions on the chain of the freeze and thaw instructions for w
FreezeThawEvents(w) ==
  {k \in 1..Len(chain) :
     \E n \in 1..Len(chain[k].instrs) : chain[k].instrs[n].account = w}

\* the transaction at position k is in the ledger as a freeze or thaw of w
Recorded(k, w) ==
  \E j \in 1..Len(ledger) :
    /\ ledger[j].signature = chain[k].sig
    /\ ledger[j].wallet = w
    /\ ledger[j].status \in {"ACCOUNT_FROZEN", "ACCOUNT_FROZEN_BY_SCRIPT",
                             "ACCOUNT_THAWED"}

\* C24: a wallet whose latest freeze/thaw event on the chain is a thaw, all
\* of its freeze and thaw events being recorded in the ledger, is not in the
\* frozen view computed from the ledger.
C24_ThawedNotInView ==
  \A w \in Wallets :
    LET evs == FreezeThawEvents(w)
    IN (/\ evs # {}
        /\ chain[MaxOf(evs)].instrs[1].type = "thawAccount"
        /\ \A k \in evs : Recorded(k, w))
       => w \notin FrozenView(ledger)

\* the transfer records of the whole ledger for a signature
TransferRecordsOf(sig) ==
  {k \in 1..Len(ledger) :
     ledger[k].signature = sig /\ ledger[k].status \in TransferStatuses}

\* C25: after a finished run, whatever runs were cut short before it (the
\* node having answered every call), the ledger holds the transfer records
\* of an analysis that took each signature once: one record for each
\* analysed transfer, none twice.
C25_ReprocessingIdempotent ==
  (pc = "idle" /\ lastRun.finished /\ nFail = 0) =>
    \A k \in 1..Len(chain) : Cardinality(TransferRecordsOf(chain[k].sig)) <= 1

\* the recipients of the transfers among the signatures sigs
RecipientsIn(sigs) ==
  {ReconstructTransfer(TxBySig(sig)).recipient :
     sig \in {x \in sigs : IsTransfer(ReconstructTransfer(TxBySig(x)))}}

\* the greylist a run ends with, computed pass by pass from sets alone: the
\* wallets scanned, the signatures found, the signatures analysed, the
\* greylist; whitelist and cursor file are those the run started from
RECURSIVE GreylistFixpoint(_, _, _, _)
GreylistFixpoint(scanned, found, processed, grey) ==
  LET due == (whitelist \cup grey) \ scanned
      found2 == found \cup
                UNION {Range(get_new_signatures_paginated(w, stateFile[w])) : w \in due}
      now == found2 \ processed
      flagged == RecipientsIn(now) \ (whitelist \cup grey)
  IN IF due = {} THEN grey
     ELSE IF now = {}
     THEN GreylistFixpoint(scanned \cup due, found2, processed, grey)
     ELSE IF flagged = {} THEN grey
     ELSE GreylistFixpoint(scanned \cup due, found2, processed \cup now,
                           grey \cup flagged)

\* C26: whatever the order in which the signatures of each pass were
\* analysed, a run in which the node answered every call leaves the pass loop
\* with the greylist that follows from the whitelist, the persisted greylist
\* and cursors and the chain history alone.
C26_OrderIndependent ==
  (pc = "persist" /\ nFail = 0) =>
    greylist = GreylistFixpoint({}, {}, {}, greylistFile)

\* a run that took two signatures of a pass against their sorted order and
\* classified a transfer to a wallet as a violation where the sorted order
\* would have flagged the other transfer to it
C26_Witness ==
  /\ pc = "persist" /\ nFail = 0
  /\ \E i \in 1..Len(classLog) : \E j \in i + 1 .. Len(classLog) :
       /\ classLog[i].pass = classLog[j].pass
       /\ classLog[i].signature > classLog[j].signature
       /\ classLog[i].recipient = classLog[j].recipient
       /\ classLog[i].status = "VIOLATION"
       /\ classLog[j].status = "AUTHORIZED_TRANSFER"
       /\ classLog[i].recipient \in greylist \ greylistFile

\* C27: what the bot does with a fetched transaction (the records it logs,
\* the signatures it holds as processed, its counters, the freezes it asks
\* for) is the same with debug_mode on and with debug_mode off.
C27_DebugChangesNothing ==
  \A k \in 1..Len(chain) :
    analyze_fetched_under(TRUE, chain[k].sig, BotState)
      = analyze_fetched_under(FALSE, chain[k].sig, BotState)

\* the wallets whose persisted cursor is the signature sig or a later one of
\* the wallet's history
CursorAtOrPast(sig) ==
  {w \in Wallets :
     /\ sig \in Range(HistoryOf(w, chain))
     /\ stateFile[w] \in Range(HistoryOf(w, chain))
     /\ ChainPos(stateFile[w]) >= ChainPos(sig)}

\* C28: between runs, however the last run ended, a transfer recorded as
\* VIOLATION whose signature a persisted cursor has reached or passed has its
\* recipient in the persisted greylist.
C28_PersistedConsistent ==
  pc = "idle" =>
    \A k \in 1..Len(ledger) :
      (ledger[k].status = "VIOLATION" /\ CursorAtOrPast(ledger[k].signature) # {})
        => ledger[k].recipient \in greylistFile

\* the wallets for whose token account the bot has sent a freezeAccount
\* transaction that the node accepted
BotFreezeSubmitted ==
  {w \in Wallets :
     \E i \in 1..Len(chain) :
       /\ chain[i].sig >= FreezeSigBase
       /\ \E j \in 1..Len(chain[i].instrs) :
            chain[i].instrs[j] = Instr("freezeAccount", w)}

\* C29: once the bot's freeze tasks have run, every wallet listed in the
\* frozen_wallets of a VIOLATION_FROZEN record is one for whose token account
\* a freeze transaction was submitted without error.
C29_ListedOnlyIfSubmitted ==
  freeze_tasks = <<>> =>
    \A k \in 1..Len(transaction_log) :
      transaction_log[k].status = "VIOLATION_FROZEN" =>
        \A j \in 1..Len(transaction_log[k].frozen_wallets) :
          transaction_log[k].frozen_wallets[j] \in BotFreezeSubmitted

\* C30: while the whitelist file is empty no run gets past loading: from the
\* idle engine no step starts a pass or scans a wallet, and the cursor file,
\* the greylist file and the ledger stay as they are, whatever the greylist
\* file holds.
C30_EmptyWhitelistNoScan ==
  [][(pc = "idle" /\ whitelistFile = {}) =>
       /\ pc' = "idle"
       /\ scanned_wallets_in_run' = {}
       /\ scanCount' = NoScans
       /\ stateFile' = stateFile
       /\ greylistFile' = greylistFile
       /\ ledger' = ledger]_vars

\* a run has loaded an empty whitelist and a greylist that is not empty, and
\* has ended
C30_Witness ==
  /\ pc = "idle"
  /\ whitelistFile = {} /\ whitelist = {}
  /\ greylistFile # {} /\ greylist = greylistFile

====
